---- MODULE Spec2Model ----
(***************************************************************************)
(* ronin-wally (src/main.rs): collects the sent and received transaction   *)
(* hashes of one address from the ronin.rest API, fetches and decodes each *)
(* transaction, sorts the records by block number and writes them to       *)
(* <address>.json.                                                         *)
(*                                                                         *)
(* Strings are sequences of tokens.  A token is a literal piece of text    *)
(* ("ronin:", "0x", "=", "--address", ...) or a run of hex digits written  *)
(* "hexN" for N hex-encoded bytes.                                         *)
(***************************************************************************)
EXTENDS FiniteSets, Integers, Sequences, TLC

VARIABLES
    argv,           \* std::env::args(): the command line, program name first
    pc,             \* position of main(): the await it is suspended at
    use_localhost,  \* main.rs:136
    promptError,    \* the prompt shows "Failed to parse your address!"
    rr,             \* the RoninRest value: address and host
    inflight,       \* HTTP requests sent and not yet answered
    sent,           \* main.rs:176, the sent hash list until it is merged
    total,          \* main.rs:179, the merged hash list
    pos,            \* progress position: hashes of total already processed
    tx,             \* main.rs:198, the summary of the hash being processed
    account_data,   \* main.rs:195
    files,          \* the working directory: files written by the run
    warned,         \* hashes named by "Failed to retrieve transaction details"
    input,          \* main.rs:208, the decoded method awaiting the receipt
    fetched,        \* history: the summary obtained for each processed hash
    last,           \* history: the last call that returned
    exhausted       \* history: some call returned after its retries ran out

vars == <<argv, pc, use_localhost, promptError, rr, inflight, sent, total, pos,
          tx, account_data, files, warned, input, fetched, last, exhausted>>

---------------------------------------------------------------------------
(* Bounds of the model *)

\* main.rs:55
max_n_retries == 25

\* most hashes the two list responses hold together
MaxTotal == 3

\* hashes the API may list
Hashes == {"h1", "h2"}

\* accounts the API may name as sender or recipient
Accounts == {"a", "b"}

\* transient failures a call may meet before its last attempt
RetryCounts == {0, 1, max_n_retries}

\* block numbers the API may report
Blocks == {50, 100}

\* decoded payloads, opaque to the program
JsonValues == {"json"}

---------------------------------------------------------------------------
(* Program constants *)

\* web3::types::Address is 20 bytes
AddressBytes == 20

DefaultHost == "https://ronin.rest"

LocalHost == "http://localhost:3000"

---------------------------------------------------------------------------
(* Strings *)

\* number of hex-encoded bytes a token stands for, -1 when it is no hex run
HexBytes(tok) ==
    CASE tok = "hex20" -> 20
      [] tok = "hex19" -> 19
      [] tok = "hex1"  -> 1
      [] OTHER         -> -1

RECURSIVE SumHexBytes(_)
SumHexBytes(s) ==
    IF s = <<>> THEN 0 ELSE HexBytes(Head(s)) + SumHexBytes(Tail(s))

\* input.replace("ronin:", "0x"): every occurrence is replaced
normalize_address(raw) ==
    [i \in 1..Len(raw) |-> IF raw[i] = "ronin:" THEN "0x" ELSE raw[i]]

\* str::parse::<Address>(): an optional "0x", then exactly 20 hex bytes
ParseAddress(s) ==
    LET body == IF s # <<>> /\ Head(s) = "0x" THEN Tail(s) ELSE s
    IN  /\ body # <<>>
        /\ \A i \in 1..Len(body) : HexBytes(body[i]) >= 0
        /\ SumHexBytes(body) = AddressBytes

\* arg.split("="): the pieces between the "=" tokens
RECURSIVE SplitEq(_)
SplitEq(arg) ==
    IF \A i \in 1..Len(arg) : arg[i] # "="
    THEN <<arg>>
    ELSE LET k == CHOOSE i \in 1..Len(arg) :
                     arg[i] = "=" /\ \A j \in 1..(i-1) : arg[j] # "="
         IN  <<SubSeq(arg, 1, k-1)>> \o SplitEq(SubSeq(arg, k+1, Len(arg)))

\* arg.starts_with(param)
StartsWith(arg, param) == arg # <<>> /\ Head(arg) = param

\* the condition under which ArgParser::split returns from an argument
SplitTakes(arg, param) == StartsWith(arg, param) /\ Len(SplitEq(arg)) = 2

\* ArgParser::split: the value of the first argument that starts with param
\* and splits into two pieces; <<>> is None, <<v>> is Some(v)
ArgParser_split(args, param) ==
    LET hits == {i \in 1..Len(args) : SplitTakes(args[i], param)}
    IN  IF hits = {} THEN <<>>
        ELSE LET k == CHOOSE i \in hits : \A j \in hits : i <= j
             IN  <<SplitEq(args[k])[2]>>

---------------------------------------------------------------------------
(* Lists *)

\* Vec::dedup: removes consecutive repeated elements
RECURSIVE dedup(_)
dedup(s) ==
    IF Len(s) <= 1 THEN s
    ELSE IF s[1] = s[2] THEN dedup(Tail(s))
         ELSE <<s[1]>> \o dedup(Tail(s))

\* the comparator of sort_by: a.block_number.cmp(&b.block_number) is Greater
CmpGreater(a, b) == a.block_number > b.block_number

\* mutant of InsertSorted: r goes before the elements equal to it
RECURSIVE InsertBeforeEqual(_, _)
InsertBeforeEqual(s, r) ==
    IF s = <<>> THEN <<r>>
    ELSE IF ~CmpGreater(r, Head(s)) THEN <<r>> \o s
         ELSE <<Head(s)>> \o InsertBeforeEqual(Tail(s), r)

\* insertion of r into a sorted sequence, after every element not greater
RECURSIVE InsertSorted(_, _)
InsertSorted(s, r) ==
    IF s = <<>> THEN <<r>>
    ELSE IF CmpGreater(Head(s), r) THEN <<r>> \o s
         ELSE <<Head(s)>> \o InsertSorted(Tail(s), r)

\* mutant of sort_by: the sequence is left as accumulated
NoSort(s) == s

\* slice::sort_by: a stable sort
RECURSIVE sort_by(_)
sort_by(s) ==
    IF s = <<>> THEN <<>>
    ELSE InsertSorted(sort_by(SubSeq(s, 1, Len(s)-1)), s[Len(s)])

SeqsUpTo(S, n) == UNION {[1..k -> S] : k \in 0..n}

---------------------------------------------------------------------------
(* The command line *)

ProgName == <<"ronin-wally">>

ArgLocalhostBare  == <<"--localhost">>
ArgLocalhostValue == <<"--localhost", "=", "true">>
ArgAddressRonin   == <<"--address", "=", "ronin:", "hex20">>
ArgAddressBad     == <<"--address", "=", "ronin:", "hex19">>

\* the command lines of the model
ArgvChoices ==
    { <<ProgName>> \o flags : flags \in
    { <<>>, <<ArgLocalhostValue>>, <<ArgAddressRonin>>, <<ArgAddressBad>>,
      <<ArgLocalhostBare, ArgAddressRonin>>,
      <<ArgAddressBad, ArgAddressRonin>> } }

\* what the user may type at the prompt
PromptInputs ==
    { <<"ronin:", "hex20">>, <<"0x", "hex20">>, <<"ronin:", "hex19">>,
      <<"ronin:", "hex20", "hex1">>, <<"ronin:", "ronin:", "hex20">>,
      <<"g">>, <<>> }

---------------------------------------------------------------------------
(* The HTTP client *)

\* a response body: text that is JSON of the expected shape, or is not
Json(v) == [parses |-> TRUE, value |-> v]

Garbage == [parses |-> FALSE, value |-> <<>>]

\* how the last attempt of a call ended
Finals == {"response", "retryable_status", "transient_error", "fatal_error"}

\* RetryTransientMiddleware: a transient outcome is retried while fewer than
\* max_n_retries retries were made, every other outcome is returned at once
IsFinal(failures, final) ==
    final \in {"retryable_status", "transient_error"} => failures = max_n_retries

\* the call gave up retrying
RetriesExhausted(failures, final) ==
    final \in {"retryable_status", "transient_error"} /\ failures = max_n_retries

\* .send().await and .text().await: Ok for any HTTP response, whatever its
\* status (the code never looks at the status, and a retryable status that
\* outlasts the retries is handed back as that response), Err for a
\* transport error
SendOk(final) == final \in {"response", "retryable_status"}

\* the body that comes with an outcome: an error status carries no result,
\* a transport error carries no body at all
BodyOf(final, body) == final # "response" => body = Garbage

\* serde_json::from_str: <<>> is Err, <<v>> is Ok(v)
from_str(body) == IF body.parses THEN <<body.value>> ELSE <<>>

Request(op, host, arg) == [op |-> op, host |-> host, arg |-> arg]

NoCall == [op |-> "none", arg |-> "", res |-> "ok"]

Returned(op, arg, res) == [op |-> op, arg |-> arg, res |-> res]

\* bodies of the list endpoints: at most n hashes, or garbage
ListBodies(n) == {Json(v) : v \in SeqsUpTo(Hashes, n)} \cup {Garbage}

\* bodies of getTransaction
SummaryBodies ==
    {Json(v) : v \in [from : Accounts, to : Accounts, hash : Hashes,
                      block_number : Blocks]} \cup {Garbage}

\* bodies of the two decode endpoints
DecodeBodies == {Json(v) : v \in JsonValues} \cup {Garbage}

---------------------------------------------------------------------------
(* main *)

NoTx == [from |-> "", to |-> "", hash |-> "", block_number |-> 0]

\* main.rs:99-104
Sentinel == [from |-> "null", to |-> "null", hash |-> "null", block_number |-> 0]

\* mutant of transaction_result: a summary that does not decode panics
TransactionUnwraps(body) == from_str(body)

\* RoninRest::transaction: from_str(..).unwrap_or(sentinel); <<>> is a panic
transaction_result(body) ==
    IF from_str(body) = <<>> THEN <<Sentinel>> ELSE from_str(body)

\* the other four calls: from_str(..).unwrap(); <<>> is a panic
unwrap_result(body) == from_str(body)

\* mutant of AddressFromFlag: the flag's address is used unchecked
AddressUnchecked(passed) == <<normalize_address(passed)>>

\* main.rs:157-165: the address passed by flag; <<>> is the panic
AddressFromFlag(passed) ==
    IF ParseAddress(normalize_address(passed))
    THEN <<normalize_address(passed)>>
    ELSE <<>>

\* main.rs:146-152: validate_with of the prompt
PromptValidates(typed) == ParseAddress(normalize_address(typed))

\* main.rs:200
IsFailedSummary(t) == t.to = "null" /\ t.from = "null"

\* mutant of KeepsTransaction: self-calls are kept
KeepsAll(t) == TRUE

\* mutant of KeepsTransaction: the test is inverted
KeepsSelfCalls(t) == t.to = t.from

\* main.rs:204
KeepsTransaction(t) == t.to # t.from

\* mutant of MakeRecord: the hash is taken from the summary
MakeRecordSummaryHash(hash, t, in, out) ==
    [from |-> t.from, input |-> in, output |-> out, hash |-> t.hash,
     to |-> t.to, block_number |-> t.block_number]

\* main.rs:206-213
MakeRecord(hash, t, in, out) ==
    [from |-> t.from, input |-> in, output |-> out, hash |-> hash,
     to |-> t.to, block_number |-> t.block_number]

Summary(t) == [from |-> t.from, to |-> t.to, block_number |-> t.block_number]

FileName(address) == address \o <<".json">>

Init ==
    /\ argv \in ArgvChoices
    /\ pc = "start"
    /\ use_localhost = FALSE
    /\ promptError = FALSE
    /\ rr = [address |-> <<>>, host |-> ""]
    /\ inflight = {}
    /\ sent = <<>>
    /\ total = <<>>
    /\ pos = 0
    /\ tx = NoTx
    /\ account_data = <<>>
    /\ files = {}
    /\ warned = {}
    /\ input = ""
    /\ fetched = <<>>
    /\ last = NoCall
    /\ exhausted = FALSE

\* main.rs:169-176: build the client, pick the host, send the first request
Connect(address, local) ==
    LET host == IF local THEN LocalHost ELSE DefaultHost
    IN  /\ rr' = [address |-> address, host |-> host]
        /\ inflight' = {Request("listSentTransactions", host, address)}
        /\ pc' = "await_sent"

\* a panic of main: the process ends, nothing is written
Panic(op, arg, res, failures, final) ==
    /\ pc' = "panicked"
    /\ inflight' = {}
    /\ last' = Returned(op, arg, res)
    /\ exhausted' = (exhausted \/ RetriesExhausted(failures, final))
    /\ UNCHANGED <<argv, use_localhost, promptError, rr, sent, total, pos, tx,
                   account_data, files, warned, input, fetched>>

\* main.rs:136-166
ParseArgs ==
    /\ pc = "start"
    /\ LET local  == ArgParser_split(argv, "--localhost") # <<>>
           passed == ArgParser_split(argv, "--address")
       IN  /\ use_localhost' = local
           /\ IF passed = <<>>
              THEN /\ pc' = "prompt"
                   /\ UNCHANGED <<rr, inflight>>
              ELSE IF AddressFromFlag(passed[1]) = <<>>
                   THEN /\ pc' = "panicked"
                        /\ UNCHANGED <<rr, inflight>>
                   ELSE Connect(AddressFromFlag(passed[1])[1], local)
    /\ UNCHANGED <<argv, promptError, sent, total, pos, tx, account_data,
                   files, warned, input, fetched, last, exhausted>>

\* main.rs:146-152: the typed address does not parse, the prompt asks again
PromptReject ==
    /\ pc = "prompt"
    /\ \E typed \in PromptInputs :
          /\ ~PromptValidates(typed)
          /\ promptError' = TRUE
    /\ UNCHANGED <<argv, pc, use_localhost, rr, inflight, sent, total, pos, tx,
                   account_data, files, warned, input, fetched, last, exhausted>>

\* main.rs:143-155, 169-176: the typed address parses
PromptAccept ==
    /\ pc = "prompt"
    /\ \E typed \in PromptInputs :
          /\ PromptValidates(typed)
          /\ promptError' = FALSE
          /\ Connect(normalize_address(typed), use_localhost)
    /\ UNCHANGED <<argv, use_localhost, sent, total, pos, tx, account_data,
                   files, warned, input, fetched, last, exhausted>>

\* main.rs:153-154: interact() fails, unwrap panics
PromptFails ==
    /\ pc = "prompt"
    /\ pc' = "panicked"
    /\ UNCHANGED <<argv, use_localhost, promptError, rr, inflight, sent, total,
                   pos, tx, account_data, files, warned, input, fetched, last,
                   exhausted>>

\* main.rs:183-186: append both lists to total, then dedup
MergeLists(s, r) == dedup(s \o r)

\* the for loop moves on: the request for the next hash, or the end of the
\* loop when p hashes of tot are processed
NextHash(p, tot) ==
    IF p < Len(tot)
    THEN /\ inflight' = {Request("getTransaction", rr.host, tot[p + 1])}
         /\ pc' = "await_transaction"
    ELSE /\ inflight' = {}
         /\ pc' = "saving"

\* a call returned without a panic
Return(op, arg, res, failures, final) ==
    /\ last' = Returned(op, arg, res)
    /\ exhausted' = (exhausted \/ RetriesExhausted(failures, final))

\* main.rs:65-71, 176-177: sent_transactions returns
SentReturns ==
    /\ pc = "await_sent"
    /\ \E failures \in RetryCounts, final \in Finals,
          body \in ListBodies(MaxTotal) :
          /\ IsFinal(failures, final)
          /\ BodyOf(final, body)
          /\ IF ~SendOk(final)
             THEN Panic("listSentTransactions", rr.address, "send_failed",
                        failures, final)
             ELSE IF unwrap_result(body) = <<>>
             THEN Panic("listSentTransactions", rr.address, "decode_failed",
                        failures, final)
             ELSE /\ sent' = unwrap_result(body)[1]
                  /\ inflight' = {Request("listReceivedTransactions", rr.host,
                                          rr.address)}
                  /\ pc' = "await_received"
                  /\ Return("listSentTransactions", rr.address, "ok", failures,
                            final)
                  /\ UNCHANGED <<argv, use_localhost, promptError, rr, total,
                                 pos, tx, account_data, files, warned, input,
                                 fetched>>

\* main.rs:72-78, 177-198: received_transactions returns, the lists are merged
\* and the loop starts
ReceivedReturns ==
    /\ pc = "await_received"
    /\ \E failures \in RetryCounts, final \in Finals,
          body \in ListBodies(MaxTotal - Len(sent)) :
          /\ IsFinal(failures, final)
          /\ BodyOf(final, body)
          /\ IF ~SendOk(final)
             THEN Panic("listReceivedTransactions", rr.address, "send_failed",
                        failures, final)
             ELSE IF unwrap_result(body) = <<>>
             THEN Panic("listReceivedTransactions", rr.address,
                        "decode_failed", failures, final)
             ELSE /\ total' = MergeLists(sent, unwrap_result(body)[1])
                  /\ sent' = <<>>
                  /\ NextHash(0, total')
                  /\ Return("listReceivedTransactions", rr.address, "ok",
                            failures, final)
                  /\ UNCHANGED <<argv, use_localhost, promptError, rr, pos, tx,
                                 account_data, files, warned, input, fetched>>

\* main.rs:96-107, 198-208 and 217-218: transaction returns; a self-call ends
\* the iteration, any other summary sends the decode_method request
TransactionReturns ==
    /\ pc = "await_transaction"
    /\ \E failures \in RetryCounts, final \in Finals,
          body \in SummaryBodies :
          LET hash == total[pos + 1]
              res  == transaction_result(body)
          IN
          /\ IsFinal(failures, final)
          /\ BodyOf(final, body)
          /\ IF ~SendOk(final)
             THEN Panic("getTransaction", hash, "send_failed", failures, final)
             ELSE IF res = <<>>
             THEN Panic("getTransaction", hash, "decode_failed", failures,
                        final)
             ELSE /\ warned' = IF IsFailedSummary(res[1])
                               THEN warned \cup {hash} ELSE warned
                  /\ fetched' = Append(fetched, Summary(res[1]))
                  /\ IF KeepsTransaction(res[1])
                     THEN /\ tx' = res[1]
                          /\ inflight' = {Request("decodeTransaction", rr.host,
                                                  hash)}
                          /\ pc' = "await_method"
                          /\ pos' = pos
                     ELSE /\ tx' = NoTx
                          /\ pos' = pos + 1
                          /\ NextHash(pos + 1, total)
                  /\ Return("getTransaction", hash,
                            IF from_str(body) = <<>> THEN "decode_failed"
                            ELSE "ok", failures, final)
                  /\ UNCHANGED <<argv, use_localhost, promptError, rr, sent,
                                 total, account_data, files, input>>

\* main.rs:80-86, 208-209: decode_method returns, decode_receipt is sent
MethodReturns ==
    /\ pc = "await_method"
    /\ \E failures \in RetryCounts, final \in Finals,
          body \in DecodeBodies :
          LET hash == total[pos + 1]
          IN
          /\ IsFinal(failures, final)
          /\ BodyOf(final, body)
          /\ IF ~SendOk(final)
             THEN Panic("decodeTransaction", hash, "send_failed", failures,
                        final)
             ELSE IF unwrap_result(body) = <<>>
             THEN Panic("decodeTransaction", hash, "decode_failed", failures,
                        final)
             ELSE /\ input' = unwrap_result(body)[1]
                  /\ inflight' = {Request("decodeTransactionReceipt", rr.host,
                                          hash)}
                  /\ pc' = "await_receipt"
                  /\ Return("decodeTransaction", hash, "ok", failures, final)
                  /\ UNCHANGED <<argv, use_localhost, promptError, rr, sent,
                                 total, pos, tx, account_data, files, warned,
                                 fetched>>

\* main.rs:88-94, 205-218: decode_receipt returns, the record is pushed and
\* the iteration ends
ReceiptReturns ==
    /\ pc = "await_receipt"
    /\ \E failures \in RetryCounts, final \in Finals,
          body \in DecodeBodies :
          LET hash == total[pos + 1]
          IN
          /\ IsFinal(failures, final)
          /\ BodyOf(final, body)
          /\ IF ~SendOk(final)
             THEN Panic("decodeTransactionReceipt", hash, "send_failed",
                        failures, final)
             ELSE IF unwrap_result(body) = <<>>
             THEN Panic("decodeTransactionReceipt", hash, "decode_failed",
                        failures, final)
             ELSE /\ account_data' =
                        Append(account_data,
                               MakeRecord(hash, tx, input,
                                          unwrap_result(body)[1]))
                  /\ tx' = NoTx
                  /\ input' = ""
                  /\ pos' = pos + 1
                  /\ NextHash(pos + 1, total)
                  /\ Return("decodeTransactionReceipt", hash, "ok", failures,
                            final)
                  /\ UNCHANGED <<argv, use_localhost, promptError, rr, sent,
                                 total, files, warned, fetched>>

\* main.rs:221-235: sort, then write <address>.json; a failed write panics
Persist ==
    /\ pc = "saving"
    /\ account_data' = sort_by(account_data)
    /\ \/ /\ files' = {f \in files : f.name # FileName(rr.address)} \cup
                      {[name |-> FileName(rr.address),
                        content |-> account_data']}
          /\ last' = Returned("write", FileName(rr.address), "ok")
          /\ pc' = "done"
       \/ /\ files' = files
          /\ last' = Returned("write", FileName(rr.address), "write_failed")
          /\ pc' = "panicked"
    /\ UNCHANGED <<argv, use_localhost, promptError, rr, inflight, sent, total,
                   pos, tx, warned, input, fetched, exhausted>>

Next ==
    \/ ParseArgs
    \/ PromptReject
    \/ PromptAccept
    \/ PromptFails
    \/ SentReturns
    \/ ReceivedReturns
    \/ TransactionReturns
    \/ MethodReturns
    \/ ReceiptReturns
    \/ Persist

Spec == Init /\ [][Next]_vars

---------------------------------------------------------------------------
(* Properties *)

\* the arrays written to output files
Written == {f.content : f \in files}

\* what identifies a record: its hash and the fields copied from the summary
Key(r) == [hash |-> r.hash, from |-> r.from, to |-> r.to,
           block_number |-> r.block_number]

Keys(s) == [i \in 1..Len(s) |-> Key(s[i])]

Count(s, x) == Cardinality({i \in 1..Len(s) : s[i] = x})

IsPermutation(s, t) ==
    /\ Len(s) = Len(t)
    /\ \A i \in 1..Len(s) : Count(s, s[i]) = Count(t, s[i])

\* the summary fetched for the k-th hash is not a self-call
NotSelf(k) == fetched[k].from # fetched[k].to

\* the records the first k hashes of total call for, in accumulation order
RECURSIVE ExpectedKeys(_)
ExpectedKeys(k) ==
    IF k = 0 THEN <<>>
    ELSE IF NotSelf(k)
         THEN Append(ExpectedKeys(k - 1),
                     [hash |-> total[k], from |-> fetched[k].from,
                      to |-> fetched[k].to,
                      block_number |-> fetched[k].block_number])
         ELSE ExpectedKeys(k - 1)

WithBlock(s, b) == SelectSeq(s, LAMBDA r : r.block_number = b)

\* some network call was made
Called == inflight # {} \/ (last.op # "none" /\ last.op # "write")

InLoop == pc \in {"await_transaction", "await_method", "await_receipt"}

\* C1: no record accumulated or written has from = to, and a hash whose
\* fetched summary has from = to contributes no record.
C1_NoSelfCallInOutput ==
    /\ \A i \in 1..Len(account_data) : account_data[i].from # account_data[i].to
    /\ \A c \in Written : \A i \in 1..Len(c) : c[i].from # c[i].to
    /\ \A c \in Written :
          Len(c) = Cardinality({k \in 1..Len(fetched) : NotSelf(k)})

C1_Witness ==
    /\ pc = "done"
    /\ \E k \in 1..Len(fetched) : ~NotSelf(k) /\ fetched[k].from \in Accounts
    /\ \E c \in Written : c # <<>>

\* C2 (as claimed): the written array holds no hash twice.
C2_NoDuplicateHashes ==
    \A c \in Written :
        \A i, j \in 1..Len(c) : c[i].hash = c[j].hash => i = j

\* C3: every written array is sorted non-decreasing by block number.
C3_OutputSorted ==
    \A c \in Written :
        \A i, j \in 1..Len(c) :
            i < j => c[i].block_number <= c[j].block_number

C3_Witness ==
    /\ pc = "done"
    /\ \E i, j \in 1..Len(fetched) :
          /\ i < j /\ NotSelf(i) /\ NotSelf(j)
          /\ fetched[i].block_number > fetched[j].block_number

\* C4 (as claimed): a run in which some call gave up after its retries were
\* exhausted never completes and writes no file.
C4_ExhaustionAborts ==
    exhausted => (pc # "done" /\ files = {})

\* C5: at most one request is in flight; a decode call is in flight only for
\* the current hash, whose summary was fetched and is no self-call; the
\* method decode directly follows the summary fetch and the receipt decode
\* directly follows the method decode; a summary fetch is in flight only when
\* every call of the previous hash has returned.
C5_CallsInSequence ==
    /\ Cardinality(inflight) <= 1
    /\ \A r \in inflight :
          /\ r.op = "decodeTransaction" =>
                /\ Len(fetched) = pos + 1 /\ NotSelf(pos + 1)
                /\ r.arg = total[pos + 1]
                /\ last.op = "getTransaction" /\ last.res = "ok"
                /\ last.arg = r.arg
          /\ r.op = "decodeTransactionReceipt" =>
                /\ Len(fetched) = pos + 1 /\ NotSelf(pos + 1)
                /\ r.arg = total[pos + 1]
                /\ last.op = "decodeTransaction" /\ last.res = "ok"
                /\ last.arg = r.arg
          /\ r.op = "getTransaction" =>
                /\ Len(fetched) = pos
                /\ r.arg = total[pos + 1]
                /\ pos = 0 => last.op = "listReceivedTransactions"
                /\ pos > 0 =>
                      /\ last.op = IF NotSelf(pos)
                                   THEN "decodeTransactionReceipt"
                                   ELSE "getTransaction"
                      /\ last.arg = total[pos]

C5_Witness ==
    /\ pc = "await_receipt"
    /\ pos = 2
    /\ ~NotSelf(1)
    /\ NotSelf(2)

\* C6: a network call is made only with an address that parses; an address
\* passed by flag that does not parse ends the run without a call; the prompt
\* makes no call and shows its error only while it is still asking.
C6_InvalidAddressNoCall ==
    /\ Called => ParseAddress(rr.address)
    /\ \A r \in inflight : r.op \in {"listSentTransactions",
                                     "listReceivedTransactions"} =>
          ParseAddress(r.arg)
    /\ pc = "prompt" => ~Called
    /\ promptError => pc = "prompt" \/ (pc = "panicked" /\ ~Called)
    /\ LET passed == ArgParser_split(argv, "--address")
       IN  (pc # "start" /\ passed # <<>>
               /\ ~ParseAddress(normalize_address(passed[1])))
           => (pc = "panicked" /\ ~Called)

C6_Witness ==
    /\ pc = "panicked"
    /\ ~Called
    /\ ArgParser_split(argv, "--address") # <<>>

\* the command line holds the bare flag --localhost
HasBareLocalhost == \E i \in 1..Len(argv) : argv[i] = <<"--localhost">>

\* the command line holds no argument that starts with --localhost
HasNoLocalhost == \A i \in 1..Len(argv) : ~StartsWith(argv[i], "--localhost")

\* C7 (as claimed): with the bare flag --localhost every request goes to
\* http://localhost:3000, without the flag every request goes to the default
\* host.
C7_LocalhostFlag ==
    \A r \in inflight :
        /\ HasBareLocalhost => r.host = LocalHost
        /\ HasNoLocalhost => r.host = DefaultHost

\* C8: when the summary of a hash does not decode the run goes on: the
\* sentinel is the summary, the hash is named in a warning and the loop is at
\* the next hash or at the save; when the body of any other call does not
\* decode the run has panicked.
C8_DecodeFailure ==
    last.res = "decode_failed" =>
        IF last.op = "getTransaction"
        THEN /\ pc \in {"await_transaction", "saving"}
             /\ last.arg \in warned
             /\ fetched # <<>>
             /\ fetched[Len(fetched)] = Summary(Sentinel)
             /\ last.arg = total[Len(fetched)]
             /\ pos = Len(fetched)
        ELSE pc = "panicked"

C8_Witness ==
    /\ pc = "done"
    /\ warned # {}
    /\ \E c \in Written : c # <<>>
    /\ \E k \in 1..Len(fetched) :
          /\ fetched[k] = Summary(Sentinel)
          /\ k < Len(fetched)

\* C9: in a written array the records of one block number stand in the order
\* in which they were accumulated.
C9_SortIsStable ==
    pc = "done" =>
        \A c \in Written : \A b \in Blocks :
            WithBlock(Keys(c), b) = WithBlock(ExpectedKeys(Len(fetched)), b)

C9_Witness ==
    /\ pc = "done"
    /\ \E c \in Written :
          \E i, j \in 1..Len(c) :
              /\ i < j
              /\ c[i].block_number = c[j].block_number
              /\ Key(c[i]) # Key(c[j])
    /\ \E i, j \in 1..Len(fetched) :
          /\ i < j /\ NotSelf(i) /\ NotSelf(j)
          /\ fetched[i].block_number > fetched[j].block_number

\* C10: the records accumulated are, in order, one per processed hash whose
\* summary is no self-call, with the hash of the list and the from, to and
\* block number of the summary; on a completed run every hash was processed
\* and the written array is a permutation of these records; a summary that
\* failed to decode is a self-call, so its hash gets no decode call.
C10_OneRecordPerKeptHash ==
    /\ (InLoop \/ pc = "saving") => Keys(account_data) = ExpectedKeys(pos)
    /\ pc = "done" =>
          /\ pos = Len(total)
          /\ Len(fetched) = Len(total)
          /\ Written # {}
          /\ \A c \in Written :
                IsPermutation(Keys(c), ExpectedKeys(Len(total)))
    /\ \A r \in inflight :
          r.op \in {"decodeTransaction", "decodeTransactionReceipt"} =>
              fetched[Len(fetched)] # Summary(Sentinel)

C10_Witness ==
    /\ pc = "done"
    /\ \E c \in Written : Len(c) = 2
    /\ \E k \in 1..Len(fetched) : fetched[k] = Summary(Sentinel)

====
